---- MODULE Spec2Model ----
(***************************************************************************)
(* Client-side real-time telemetry pipeline of ai-email-agent:             *)
(*   - WebSocketService (frontend/src/services/websocket.ts): connection   *)
(*     lifecycle, one normalizing listener per frame kind, batching queue  *)
(*   - useActivityStore (frontend/src/store/activityStore.ts): the         *)
(*     activity registry, system status and connection flag               *)
(*   - useAuthStore (frontend/src/store/authStore.ts): the credential      *)
(*                                                                         *)
(* Values.  Every field value of an Activity is a string, as on the wire   *)
(* after template interpolation; a JavaScript `undefined` is the string    *)
(* "undefined" (which is also what `${undefined}` interpolates to).  An    *)
(* Activity is a function from the keys it owns to their values, so that   *)
(* { ...a, ...b } is the overlay of two functions.  The text-only fields   *)
(* title, description, charts and scan_details go through the same spread  *)
(* as the other fields and are not carried by the model.                   *)
(* Time is the millisecond clock read by Date.now().                       *)
(***************************************************************************)
EXTENDS Integers, Sequences, FiniteSets, TLC

(***************************************************************************)
(* Bounds of the model (not program constants).                            *)
(***************************************************************************)
MaxFrames == 2        \* frames delivered in one behaviour of Spec
MaxPipeFrames == 3    \* frames and store calls in one behaviour of SpecPipe
MaxConnFrames == 1    \* frames delivered in one behaviour of SpecConn
MaxFullFrames == 2    \* frames delivered to a full registry in SpecFull
MaxMarks == 3         \* markFeedbackSubmitted calls between two clears
MaxNormFrames == 2    \* frames delivered in one behaviour of SpecNorm
MaxCalls == 2         \* connect() calls in a row
MaxClock == 101       \* last clock reading
MaxMs == 1            \* one-millisecond ticks enumerated per batch period
MaxInserts == 60      \* sequential insertions of SpecCap

(***************************************************************************)
(* Program constants.                                                      *)
(***************************************************************************)
maxReconnectAttempts == 5
BATCH_DELAY == 50
MaxActivities == 50

Undef == "undefined"
NoToken == "null"
NoTimer == -1

Min(a, b) == IF a < b THEN a ELSE b

\* JavaScript truthiness of a wire value: x || y takes y for these
Falsy(v) == v \in {Undef, "", "0", "null"}

\* obj[key] : undefined for a key the object does not own
Get(a, k) == IF k \in DOMAIN a THEN a[k] ELSE Undef

\* { ...old, ...new }
Spread(old, new) ==
  [k \in (DOMAIN old) \cup (DOMAIN new) |->
      IF k \in DOMAIN new THEN new[k] ELSE old[k]]

\* Array.prototype.findIndex on the id; 0 stands for -1 (sequences are 1-based)
findIndex(acts, id) ==
  IF \E i \in 1..Len(acts) : acts[i].id = id
  THEN CHOOSE i \in 1..Len(acts) :
         /\ acts[i].id = id
         /\ \A j \in 1..(i - 1) : acts[j].id # id
  ELSE 0

(***************************************************************************)
(* Activity registry: useActivityStore.  Each operator is the function     *)
(* passed to set(), applied to the activities list.                        *)
(***************************************************************************)
addActivityMoveToHead(acts, activity) ==
  LET existingIndex == findIndex(acts, activity.id) IN
  IF existingIndex > 0
  THEN <<Spread(acts[existingIndex], activity)>>
         \o SubSeq(acts, 1, existingIndex - 1)
         \o SubSeq(acts, existingIndex + 1, Len(acts))
  ELSE SubSeq(<<activity>> \o acts, 1, Min(Len(acts) + 1, MaxActivities))

addActivityNoDedup(acts, activity) ==
  SubSeq(<<activity>> \o acts, 1, Min(Len(acts) + 1, MaxActivities))

addActivityNoSlice(acts, activity) ==
  LET existingIndex == findIndex(acts, activity.id) IN
  IF existingIndex > 0
  THEN [acts EXCEPT ![existingIndex] = Spread(acts[existingIndex], activity)]
  ELSE <<activity>> \o acts

addActivity(acts, activity) ==
  LET existingIndex == findIndex(acts, activity.id) IN
  IF existingIndex > 0
  THEN [acts EXCEPT ![existingIndex] = Spread(acts[existingIndex], activity)]
  ELSE SubSeq(<<activity>> \o acts, 1, Min(Len(acts) + 1, MaxActivities))

updateActivityReplace(acts, id, updates) ==
  LET existingIndex == findIndex(acts, id) IN
  IF existingIndex = 0 THEN acts
  ELSE [acts EXCEPT ![existingIndex] = updates]

updateActivity(acts, id, updates) ==
  LET existingIndex == findIndex(acts, id) IN
  IF existingIndex = 0 THEN acts
  ELSE LET existingActivity == acts[existingIndex]
           hasChanges == \E key \in DOMAIN updates :
                            updates[key] # Get(existingActivity, key)
       IN IF ~hasChanges THEN acts
          ELSE [acts EXCEPT ![existingIndex] = Spread(existingActivity, updates)]

removeActivity(acts, id) ==
  LET keep(a) == a.id # id IN SelectSeq(acts, keep)

clearActivities(acts) == <<>>

(***************************************************************************)
(* SystemStatus.  A status object is its keys in insertion order with a    *)
(* value per key; null is the store's initial value.                       *)
(***************************************************************************)
NullStatus == [isNull |-> TRUE, keys |-> <<>>, vals |-> <<>>]

RECURSIVE JoinPairs(_, _, _)
JoinPairs(keys, vals, i) ==
  IF i > Len(keys) THEN ""
  ELSE (IF i > 1 THEN "," ELSE "") \o keys[i] \o ":" \o vals[i]
       \o JoinPairs(keys, vals, i + 1)

\* JSON.stringify: the members in the object's key order
JSONstringify(status) ==
  IF status.isNull THEN "null"
  ELSE "{" \o JoinPairs(status.keys, status.vals, 1) \o "}"

updateSystemStatus(cur, status) ==
  IF JSONstringify(cur) = JSONstringify(status) THEN cur ELSE status

setConnectionStatus(cur, connected) ==
  IF cur # connected THEN connected ELSE cur

(***************************************************************************)
(* Event normalizer: the listeners of setupEventListeners.  data is the    *)
(* frame payload (a field the frame lacks reads as undefined), now is the  *)
(* clock reading when the listener runs.                                   *)
(***************************************************************************)
DateNow(now) == ToString(now)                \* `${Date.now()}`
toISOString(now) == "iso" \o ToString(now)   \* new Date().toISOString()

\* data.timestamp || new Date().toISOString()
Timestamp(data, now) ==
  IF Falsy(data.timestamp) THEN toISOString(now) ELSE data.timestamp

\* x || dflt
OrElse(x, dflt) == IF Falsy(x) THEN dflt ELSE x

email_processing_started(data, now) ==
  [id |-> "email_" \o data.email_id \o "_start",
   type |-> "email_processing", stage |-> "fetch", status |-> "started",
   email_id |-> data.email_id,
   created_at |-> Timestamp(data, now), updated_at |-> Timestamp(data, now)]

llm_analysis_complete(data, now) ==
  [id |-> "email_" \o data.email_id \o "_llm",
   type |-> "email_processing", stage |-> "analyze", status |-> "completed",
   confidence |-> data.confidence, email_id |-> data.email_id,
   created_at |-> Timestamp(data, now), updated_at |-> Timestamp(data, now)]

classification_complete(data, now) ==
  [id |-> "email_" \o data.email_id \o "_classify",
   type |-> "email_processing", stage |-> "classify", status |-> "completed",
   confidence |-> data.confidence, email_id |-> data.email_id,
   created_at |-> Timestamp(data, now), updated_at |-> Timestamp(data, now)]

suggestion_generated(data, now) ==
  [id |-> "suggestion_" \o data.email_id \o "_" \o DateNow(now),
   type |-> "email_processing", stage |-> "suggest", status |-> "completed",
   email_id |-> data.email_id,
   created_at |-> Timestamp(data, now), updated_at |-> Timestamp(data, now)]

autonomous_action_executed(data, now) ==
  [id |-> "autonomous_" \o data.email_id \o "_" \o DateNow(now),
   type |-> "autonomous_action", stage |-> "execution", status |-> "completed",
   email_id |-> data.email_id,
   created_at |-> Timestamp(data, now), updated_at |-> Timestamp(data, now)]

training_progress(data, now) ==
  [id |-> "training_" \o DateNow(now),
   type |-> "ml_training", stage |-> "execute",
   status |-> IF data.progress = "100" THEN "completed" ELSE "in_progress",
   progress |-> data.progress,
   created_at |-> Timestamp(data, now), updated_at |-> Timestamp(data, now)]

ml_training_started(data, now) ==
  [id |-> "ml_training_" \o DateNow(now),
   type |-> "ml_training", stage |-> "initialize", status |-> "in_progress",
   progress |-> "0",
   created_at |-> Timestamp(data, now), updated_at |-> Timestamp(data, now)]

ml_training_progress(data, now) ==
  [id |-> "ml_training_" \o OrElse(data.step, "progress"),
   type |-> "ml_training", stage |-> OrElse(data.step, "training"),
   status |-> "in_progress", progress |-> OrElse(data.progress, "0"),
   created_at |-> Timestamp(data, now), updated_at |-> Timestamp(data, now)]

ml_training_complete(data, now) ==
  [id |-> "ml_training_complete_" \o DateNow(now),
   type |-> "ml_training", stage |-> "complete", status |-> "completed",
   progress |-> "100",
   created_at |-> Timestamp(data, now), updated_at |-> Timestamp(data, now)]

ml_training_error(data, now) ==
  [id |-> "ml_training_error_" \o DateNow(now),
   type |-> "ml_training", stage |-> "error", status |-> "failed",
   created_at |-> Timestamp(data, now), updated_at |-> Timestamp(data, now)]

report_generation_started(data, now) ==
  [id |-> "report_generation_" \o DateNow(now),
   type |-> "report_generation", stage |-> "initialize",
   status |-> "in_progress", progress |-> "0",
   created_at |-> Timestamp(data, now), updated_at |-> Timestamp(data, now)]

report_generation_progress(data, now) ==
  [id |-> "report_generation_" \o OrElse(data.step, "progress"),
   type |-> "report_generation", stage |-> OrElse(data.step, "processing"),
   status |-> "in_progress", progress |-> OrElse(data.progress, "0"),
   created_at |-> Timestamp(data, now), updated_at |-> Timestamp(data, now)]

report_generation_complete(data, now) ==
  [id |-> "report_generation_complete_" \o DateNow(now),
   type |-> "report_generation", stage |-> "complete", status |-> "completed",
   progress |-> "100",
   created_at |-> Timestamp(data, now), updated_at |-> Timestamp(data, now)]

security_scan_started(data, now) ==
  [id |-> "security_scan_" \o DateNow(now),
   type |-> "security_scan", stage |-> "initialize", status |-> "in_progress",
   progress |-> "0",
   created_at |-> Timestamp(data, now), updated_at |-> Timestamp(data, now)]

security_scan_progress(data, now) ==
  [id |-> "security_scan_" \o OrElse(data.step, "progress"),
   type |-> "security_scan", stage |-> OrElse(data.step, "scanning"),
   status |-> "in_progress", progress |-> OrElse(data.progress, "0"),
   created_at |-> Timestamp(data, now), updated_at |-> Timestamp(data, now)]

security_scan_complete(data, now) ==
  [id |-> "security_scan_complete_" \o DateNow(now),
   type |-> "security_scan", stage |-> "complete", status |-> "completed",
   progress |-> "100",
   created_at |-> Timestamp(data, now), updated_at |-> Timestamp(data, now)]

\* the listeners that build an Activity from a payload and queue it
NormalizedKinds ==
  {"email_processing_started", "llm_analysis_complete",
   "classification_complete", "suggestion_generated",
   "autonomous_action_executed", "training_progress",
   "ml_training_started", "ml_training_progress", "ml_training_complete",
   "ml_training_error", "report_generation_started",
   "report_generation_progress", "report_generation_complete",
   "security_scan_started", "security_scan_progress",
   "security_scan_complete"}

\* the listeners that only log
LoggedKinds == {"connection_status", "subscription_status"}

\* the Activity a listener queues for a frame of the kind
Normalize(kind, data, now) ==
  CASE kind = "activity_update" -> data
    [] kind = "email_processing_started" -> email_processing_started(data, now)
    [] kind = "llm_analysis_complete" -> llm_analysis_complete(data, now)
    [] kind = "classification_complete" -> classification_complete(data, now)
    [] kind = "suggestion_generated" -> suggestion_generated(data, now)
    [] kind = "autonomous_action_executed" -> autonomous_action_executed(data, now)
    [] kind = "training_progress" -> training_progress(data, now)
    [] kind = "ml_training_started" -> ml_training_started(data, now)
    [] kind = "ml_training_progress" -> ml_training_progress(data, now)
    [] kind = "ml_training_complete" -> ml_training_complete(data, now)
    [] kind = "ml_training_error" -> ml_training_error(data, now)
    [] kind = "report_generation_started" -> report_generation_started(data, now)
    [] kind = "report_generation_progress" -> report_generation_progress(data, now)
    [] kind = "report_generation_complete" -> report_generation_complete(data, now)
    [] kind = "security_scan_started" -> security_scan_started(data, now)
    [] kind = "security_scan_progress" -> security_scan_progress(data, now)
    [] kind = "security_scan_complete" -> security_scan_complete(data, now)

(***************************************************************************)
(* Batching queue: queueActivityUpdate and processBatchedUpdates.          *)
(***************************************************************************)
queueActivityUpdateAppend(queue, activity) == Append(queue, activity)

queueActivityUpdateMoveLast(queue, activity) ==
  LET keep(a) == a.id # activity.id IN Append(SelectSeq(queue, keep), activity)

\* the queue after queueActivityUpdate(activity)
queueActivityUpdate(queue, activity) ==
  LET existingIndex == findIndex(queue, activity.id) IN
  IF existingIndex > 0
  THEN [queue EXCEPT ![existingIndex] = activity]
  ELSE Append(queue, activity)

\* one iteration of the forEach: snapshot is the store state read once
\* before the loop (activityStore.activities), acts the live store state
flushOne(acts, snapshot, activity) ==
  IF findIndex(snapshot, activity.id) > 0
  THEN updateActivity(acts, activity.id, activity)
  ELSE addActivity(acts, activity)

RECURSIVE flushFrom(_, _, _, _)
flushFrom(acts, snapshot, queue, i) ==
  IF i > Len(queue) THEN acts
  ELSE flushFrom(flushOne(acts, snapshot, queue[i]), snapshot, queue, i + 1)

\* the activities list after processBatchedUpdates
processBatchedUpdates(acts, queue) ==
  IF Len(queue) = 0 THEN acts ELSE flushFrom(acts, acts, queue, 1)

\* the store calls of one flush, in order: which store operation, on what
flushCalls(snapshot, queue) ==
  [i \in 1..Len(queue) |->
     [op |-> IF findIndex(snapshot, queue[i].id) > 0
             THEN "updateActivity" ELSE "addActivity",
      activity |-> queue[i]]]

(***************************************************************************)
(* State.                                                                  *)
(***************************************************************************)
VARIABLES
  token,                \* useAuthStore: token (NoToken is null)
  isInitialized,        \* WebSocketService.isInitialized
  socket,               \* "null": this.socket is null; else the transport:
                        \*   "closed", "opening" (connect() called, no
                        \*   event yet), "open" (socket.connected)
  socketAuth,           \* socket.auth.token
  reconnectAttempts,    \* WebSocketService.reconnectAttempts
  activityUpdateQueue,  \* WebSocketService.activityUpdateQueue
  updateBatchTimeout,   \* pending flush timer: its due time, or NoTimer
  activities,           \* useActivityStore: activities
  systemStatus,         \* useActivityStore: systemStatus
  isConnected,          \* useActivityStore: isConnected
  clock,                \* Date.now()
  \* history variables, written but never read by the program's actions
  constructions,        \* calls of io(...)
  listenerRegs,         \* calls of setupEventListeners that registered
  frames,               \* frames and direct store calls made so far
  window,               \* Activities queued since the last flush or cleanup
  upserts,              \* id -> upserts applied since the id was inserted
  allUpserts,           \* id -> upserts applied since the start
  run,                  \* family -> ids normalized for the current run
  sent,                 \* the distinct frames (kind and payload) normalized so far
  cancelled,            \* disconnect() returned and connect() was not called since
  submittedFeedback,    \* feedback store: the submissions in the object's key order
  marks,                \* the markFeedbackSubmitted calls since the last clear
  last                  \* the last call or callback and what it did

vars == <<token, isInitialized, socket, socketAuth, reconnectAttempts,
          activityUpdateQueue, updateBatchTimeout, activities, systemStatus,
          isConnected, clock, constructions, listenerRegs, frames, window,
          upserts, allUpserts, run, sent, cancelled, submittedFeedback,
          marks, last>>

authVars == <<token>>
serviceVars == <<isInitialized, socket, socketAuth, reconnectAttempts,
                 constructions, listenerRegs>>
queueVars == <<activityUpdateQueue, updateBatchTimeout, window>>
storeVars == <<activities, systemStatus, upserts, allUpserts>>
histVars == <<sent, cancelled>>
feedbackVars == <<submittedFeedback, marks>>

Range(seq) == {seq[i] : i \in 1..Len(seq)}

Families == {"ml_training", "report_generation", "security_scan"}

Init ==
  /\ token = NoToken
  /\ isInitialized = FALSE
  /\ socket = "null"
  /\ socketAuth = ""
  /\ reconnectAttempts = 0
  /\ activityUpdateQueue = <<>>
  /\ updateBatchTimeout = NoTimer
  /\ activities = <<>>
  /\ systemStatus = NullStatus
  /\ isConnected = FALSE
  /\ clock = 0
  /\ constructions = 0
  /\ listenerRegs = 0
  /\ frames = 0
  /\ window = <<>>
  /\ upserts = <<>>
  /\ allUpserts = <<>>
  /\ run = [f \in Families |-> {}]
  /\ sent = {}
  /\ cancelled = FALSE
  /\ submittedFeedback = <<>>
  /\ marks = <<>>
  /\ last = [op |-> "init"]

(***************************************************************************)
(* useAuthStore.                                                           *)
(***************************************************************************)
Tokens == {"tok1", "tok2"}

login(tok) ==
  /\ token' = tok
  /\ last' = [op |-> "login"]
  /\ UNCHANGED <<serviceVars, queueVars, storeVars, isConnected, clock,
                 frames, run, histVars, feedbackVars>>

updateToken(tok) ==
  /\ token' = tok
  /\ last' = [op |-> "updateToken"]
  /\ UNCHANGED <<serviceVars, queueVars, storeVars, isConnected, clock,
                 frames, run, histVars, feedbackVars>>

(***************************************************************************)
(* WebSocketService: connection lifecycle.                                 *)
(***************************************************************************)
\* the fields initializeSocket and connect work on
Service ==
  [isInitialized |-> isInitialized, socket |-> socket,
   socketAuth |-> socketAuth, constructions |-> constructions,
   listenerRegs |-> listenerRegs]

\* io(wsUrl, { auth: { token: '' }, autoConnect: false, ... });
\* setupEventListeners(); isInitialized = true
initializeSocketUnguarded(svc) ==
  [svc EXCEPT !.socket = "closed", !.socketAuth = "",
              !.constructions = @ + 1, !.listenerRegs = @ + 1,
              !.isInitialized = TRUE]

initializeSocket(svc) ==
  IF svc.isInitialized THEN svc
  ELSE [svc EXCEPT !.socket = "closed", !.socketAuth = "",
                   !.constructions = @ + 1, !.listenerRegs = @ + 1,
                   !.isInitialized = TRUE]

\* connect() that leaves the credential of an earlier call on the socket
connectStaleAuth(svc, tok) ==
  IF tok = NoToken THEN svc
  ELSE LET svc1 == IF ~svc.isInitialized THEN initializeSocket(svc) ELSE svc
       IN IF svc1.socket = "open" THEN svc1
          ELSE [svc1 EXCEPT !.socketAuth = IF svc.isInitialized THEN @ ELSE tok,
                            !.socket = "opening"]

\* connect() that constructs the transport before it looks for a credential
connectInitFirst(svc, tok) ==
  LET svc1 == IF ~svc.isInitialized THEN initializeSocket(svc) ELSE svc
  IN IF tok = NoToken THEN svc1
     ELSE IF svc1.socket = "open" THEN svc1
          ELSE [svc1 EXCEPT !.socketAuth = tok, !.socket = "opening"]

\* the service after connect() read the credential tok
connectRebuild(svc, tok) ==
  IF tok = NoToken THEN svc
  ELSE LET svc1 == IF svc.socket # "open"
                   THEN initializeSocketUnguarded(svc) ELSE svc
       IN IF svc1.socket = "open" THEN svc1
          ELSE [svc1 EXCEPT !.socketAuth = tok, !.socket = "opening"]

connectService(svc, tok) ==
  IF tok = NoToken THEN svc
  ELSE LET svc1 == IF ~svc.isInitialized THEN initializeSocket(svc) ELSE svc
       IN IF svc1.socket = "open" THEN svc1
          ELSE [svc1 EXCEPT !.socketAuth = tok, !.socket = "opening"]

\* consecutive connect() calls with a credential, up to this one
ConnectRow ==
  IF last.op = "connect" THEN last
  ELSE [op |-> "connect", n |-> 0, opens |-> 0, built |-> 0,
        wasOpen |-> socket = "open", prevAuth |-> socketAuth]

connect ==
  LET svc == connectService(Service, token)
      opened == token # NoToken /\ svc.socket = "opening"
  IN /\ ConnectRow.n < MaxCalls
     /\ isInitialized' = svc.isInitialized
     /\ socket' = svc.socket
     /\ socketAuth' = svc.socketAuth
     /\ constructions' = svc.constructions
     /\ listenerRegs' = svc.listenerRegs
     /\ last' = IF token = NoToken THEN [op |-> "connect_no_token"]
                ELSE [ConnectRow EXCEPT
                        !.n = @ + 1,
                        !.opens = @ + (IF opened THEN 1 ELSE 0),
                        !.built = @ + (svc.constructions - constructions),
                        !.prevAuth = socketAuth]
     /\ cancelled' = FALSE
     /\ UNCHANGED <<authVars, reconnectAttempts, queueVars, storeVars,
                    isConnected, clock, frames, run, sent, feedbackVars>>

\* cleanup(): clearTimeout and drop the queue
cleanupKeepQueue ==
  /\ updateBatchTimeout' = NoTimer
  /\ activityUpdateQueue' = activityUpdateQueue

cleanup ==
  /\ updateBatchTimeout' = NoTimer
  /\ activityUpdateQueue' = <<>>

\* disconnect() without the reset of the attempt counter
disconnectBodyKeepCounter(sock) ==
  /\ socket' = IF sock = "open" THEN "closed" ELSE sock
  /\ isConnected' = setConnectionStatus(setConnectionStatus(isConnected, FALSE), FALSE)
  /\ reconnectAttempts' = reconnectAttempts
  /\ cleanup
  /\ window' = <<>>

\* disconnect() that closes whatever socket exists
disconnectBodyAlways(sock) ==
  /\ socket' = IF sock = "null" THEN sock ELSE "closed"
  /\ isConnected' = setConnectionStatus(setConnectionStatus(isConnected, FALSE), FALSE)
  /\ reconnectAttempts' = 0
  /\ cleanup
  /\ window' = <<>>

\* the body of disconnect(), for a transport in state sock.  A connected
\* socket is closed by socket.disconnect(), whose 'disconnect' event runs
\* the listener (connection flag false) before disconnect() goes on.
disconnectBody(sock) ==
  /\ socket' = IF sock = "open" THEN "closed" ELSE sock
  /\ isConnected' = setConnectionStatus(setConnectionStatus(isConnected, FALSE), FALSE)
  /\ reconnectAttempts' = 0
  /\ cleanup
  /\ window' = <<>>

disconnect ==
  /\ disconnectBody(socket)
  /\ last' = [op |-> "disconnect", closed |-> socket = "open",
              dropped |-> activityUpdateQueue]
  /\ cancelled' = TRUE
  /\ UNCHANGED <<authVars, isInitialized, socketAuth, constructions,
                 listenerRegs, storeVars, clock, frames, run, sent,
                 feedbackVars>>

\* useAuthStore.logout: disconnect, then drop the credential
logout ==
  /\ disconnectBody(socket)
  /\ token' = NoToken
  /\ last' = [op |-> "logout", closed |-> socket = "open",
              dropped |-> activityUpdateQueue]
  /\ cancelled' = TRUE
  /\ UNCHANGED <<isInitialized, socketAuth, constructions, listenerRegs,
                 storeVars, clock, frames, run, sent, feedbackVars>>

\* socket.on('connect') without the reset of the attempt counter
on_connectKeepCounter ==
  /\ socket = "opening"
  /\ socket' = "open"
  /\ isConnected' = setConnectionStatus(isConnected, TRUE)
  /\ last' = [op |-> "on_connect", emitted |-> <<"subscribe_activities">>,
              failed |-> reconnectAttempts > 0]
  /\ UNCHANGED <<authVars, isInitialized, socketAuth, reconnectAttempts,
                 constructions, listenerRegs, queueVars, storeVars, clock,
                 frames, run, histVars, feedbackVars>>

\* socket.on('connect')
on_connect ==
  /\ socket = "opening"
  /\ socket' = "open"
  /\ isConnected' = setConnectionStatus(isConnected, TRUE)
  /\ reconnectAttempts' = 0
  /\ last' = [op |-> "on_connect", emitted |-> <<"subscribe_activities">>,
              failed |-> reconnectAttempts > 0]
  /\ UNCHANGED <<authVars, isInitialized, socketAuth, constructions,
                 listenerRegs, queueVars, storeVars, clock, frames, run,
                 histVars, feedbackVars>>

\* socket.on('disconnect') that leaves the connection flag as it is
on_disconnectKeepFlag ==
  /\ socket = "open"
  /\ socket' = "closed"
  /\ last' = [op |-> "on_disconnect"]
  /\ UNCHANGED <<authVars, isInitialized, socketAuth, reconnectAttempts,
                 constructions, listenerRegs, queueVars, storeVars, clock,
                 frames, run, histVars, feedbackVars, isConnected>>

\* socket.on('disconnect'): the transport closed under the client
on_disconnect ==
  /\ socket = "open"
  /\ socket' = "closed"
  /\ isConnected' = setConnectionStatus(isConnected, FALSE)
  /\ last' = [op |-> "on_disconnect"]
  /\ UNCHANGED <<authVars, isInitialized, socketAuth, reconnectAttempts,
                 constructions, listenerRegs, queueVars, storeVars, clock,
                 frames, run, histVars, feedbackVars>>

\* socket.on('connect_error') counting every failure twice
on_connect_errorByTwo ==
  /\ socket = "opening"
  /\ IF reconnectAttempts + 2 >= maxReconnectAttempts
     THEN disconnectBody("closed")
     ELSE /\ socket' = "closed"
          /\ isConnected' = setConnectionStatus(isConnected, FALSE)
          /\ reconnectAttempts' = reconnectAttempts + 2
          /\ UNCHANGED queueVars
  /\ last' = [op |-> "on_connect_error",
              gaveUp |-> reconnectAttempts + 2 >= maxReconnectAttempts]
  /\ cancelled' = (cancelled \/ reconnectAttempts + 2 >= maxReconnectAttempts)
  /\ UNCHANGED <<authVars, isInitialized, socketAuth, constructions,
                 listenerRegs, storeVars, clock, frames, run, sent,
                 feedbackVars>>

\* socket.on('connect_error') giving up one failure late
on_connect_errorLateGiveUp ==
  /\ socket = "opening"
  /\ IF reconnectAttempts + 1 > maxReconnectAttempts
     THEN disconnectBody("closed")
     ELSE /\ socket' = "closed"
          /\ isConnected' = setConnectionStatus(isConnected, FALSE)
          /\ reconnectAttempts' = reconnectAttempts + 1
          /\ UNCHANGED queueVars
  /\ last' = [op |-> "on_connect_error",
              gaveUp |-> reconnectAttempts + 1 > maxReconnectAttempts]
  /\ cancelled' = (cancelled \/ reconnectAttempts + 1 > maxReconnectAttempts)
  /\ UNCHANGED <<authVars, isInitialized, socketAuth, constructions,
                 listenerRegs, storeVars, clock, frames, run, sent,
                 feedbackVars>>

\* socket.on('connect_error'): the open attempt failed
on_connect_error ==
  /\ socket = "opening"
  /\ IF reconnectAttempts + 1 >= maxReconnectAttempts
     THEN disconnectBody("closed")
     ELSE /\ socket' = "closed"
          /\ isConnected' = setConnectionStatus(isConnected, FALSE)
          /\ reconnectAttempts' = reconnectAttempts + 1
          /\ UNCHANGED queueVars
  /\ last' = [op |-> "on_connect_error",
              gaveUp |-> reconnectAttempts + 1 >= maxReconnectAttempts]
  /\ cancelled' = (cancelled \/ reconnectAttempts + 1 >= maxReconnectAttempts)
  /\ UNCHANGED <<authVars, isInitialized, socketAuth, constructions,
                 listenerRegs, storeVars, clock, frames, run, sent,
                 feedbackVars>>

\* subscribeToActivities(): the request goes out only on a connected socket
subscribeToActivities ==
  /\ last' = [op |-> "subscribeToActivities",
              emitted |-> IF socket = "open" THEN <<"subscribe_activities">>
                          ELSE <<>>]
  /\ UNCHANGED <<authVars, serviceVars, queueVars, storeVars, isConnected,
                 clock, frames, run, histVars, feedbackVars>>

\* unsubscribeFromActivities()
unsubscribeFromActivities ==
  /\ last' = [op |-> "unsubscribeFromActivities",
              emitted |-> IF socket = "open" THEN <<"unsubscribe_activities">>
                          ELSE <<>>]
  /\ UNCHANGED <<authVars, serviceVars, queueVars, storeVars, isConnected,
                 clock, frames, run, histVars, feedbackVars>>

(***************************************************************************)
(* Frames.  A listener runs only for a frame of a connected socket.        *)
(***************************************************************************)
EmailKinds ==
  {"email_processing_started", "llm_analysis_complete",
   "classification_complete", "suggestion_generated",
   "autonomous_action_executed"}

StartedKinds ==
  {"ml_training_started", "report_generation_started", "security_scan_started"}

ProgressKinds ==
  {"ml_training_progress", "report_generation_progress",
   "security_scan_progress"}

FinishedKinds ==
  {"ml_training_complete", "ml_training_error", "report_generation_complete",
   "security_scan_complete"}

\* the multi-step process a frame kind reports on
FamilyOf(kind) ==
  CASE kind \in {"ml_training_started", "ml_training_progress",
                 "ml_training_complete", "ml_training_error"} -> "ml_training"
    [] kind \in {"report_generation_started", "report_generation_progress",
                 "report_generation_complete"} -> "report_generation"
    [] kind \in {"security_scan_started", "security_scan_progress",
                 "security_scan_complete"} -> "security_scan"

\* payloads of the frames of a kind: the correlation field (email_id, step)
\* is present or missing; the timestamp is present, or missing in the frames
\* that open a process
Payloads(kind) ==
  [email_id : IF kind \in EmailKinds THEN {"e1", Undef} ELSE {Undef},
   timestamp : IF kind \in StartedKinds \cup {"email_processing_started"}
               THEN {"T1", Undef} ELSE {"T1"},
   step : IF kind \in ProgressKinds THEN {"fit", Undef} ELSE {Undef},
   progress : IF kind \in ProgressKinds \cup {"training_progress"}
              THEN {"90"} ELSE {Undef},
   confidence : {Undef}]

\* activity_update payloads: Activities as the backend broadcasts them
WireActivities(ids) ==
  {[id |-> i, type |-> "autonomous_task", status |-> "started",
    progress |-> "40", created_at |-> "T1", updated_at |-> "T1"] : i \in ids}
  \cup
  {[id |-> i, type |-> "autonomous_task", status |-> "completed",
    confidence |-> "0.9", created_at |-> "T2", updated_at |-> "T2"] : i \in ids}

\* payloads of email_processing_started with both timestamps
StartedPayloads ==
  [email_id : {"e1"}, timestamp : {"T1", "T2"}, step : {Undef},
   progress : {Undef}, confidence : {Undef}]

StatusValues ==
  {[isNull |-> FALSE, keys |-> <<"is_processing", "autonomous_mode">>,
    vals |-> <<"true", "false">>],
   [isNull |-> FALSE, keys |-> <<"autonomous_mode", "is_processing">>,
    vals |-> <<"false", "true">>],
   [isNull |-> FALSE, keys |-> <<"is_processing", "autonomous_mode">>,
    vals |-> <<"false", "false">>]}

\* history: one more upsert of activity a; fresh when a is a new entry
RecordUpsert(h, a, fresh) ==
  IF fresh \/ a.id \notin DOMAIN h
  THEN (a.id :> <<a>>) @@ h
  ELSE [h EXCEPT ![a.id] = Append(@, a)]

\* history: the ids of the run a frame belongs to
RecordRun(r, kind, id) ==
  IF kind \in StartedKinds THEN [r EXCEPT ![FamilyOf(kind)] = {id}]
  ELSE IF kind \in ProgressKinds \cup FinishedKinds
            /\ r[FamilyOf(kind)] # {}
       THEN [r EXCEPT ![FamilyOf(kind)] = @ \cup {id}]
       ELSE r

\* a listener that normalizes and queues: 'activity_update' and the
\* NormalizedKinds; queueActivityUpdate restarts the timer
on_activity_frame(kind, data, cap) ==
  /\ socket = "open"
  /\ frames < cap
  /\ LET activity == Normalize(kind, data, clock) IN
       /\ activityUpdateQueue' = queueActivityUpdate(activityUpdateQueue, activity)
       /\ updateBatchTimeout' = clock + BATCH_DELAY
       /\ window' = Append(window, activity)
       /\ run' = RecordRun(run, kind, activity.id)
       /\ last' = [op |-> "frame", kind |-> kind, activity |-> activity,
                   firstOfWindow |-> updateBatchTimeout = NoTimer]
  /\ frames' = frames + 1
  /\ sent' = IF kind \in NormalizedKinds THEN sent \cup {<<kind, data>>}
              ELSE sent
  /\ UNCHANGED <<authVars, serviceVars, storeVars, isConnected, clock,
                 cancelled, feedbackVars>>

\* socket.on('system_status_update')
on_system_status_update(status, cap) ==
  /\ socket = "open"
  /\ frames < cap
  /\ systemStatus' = updateSystemStatus(systemStatus, status)
  /\ last' = [op |-> "status_frame", status |-> status]
  /\ frames' = frames + 1
  /\ UNCHANGED <<authVars, serviceVars, queueVars, activities, upserts,
                 allUpserts, isConnected, clock, run, histVars, feedbackVars>>

\* a catch-all listener that queues a frame of any other kind
on_other_frameCatchAll(kind, cap) ==
  /\ socket = "open"
  /\ frames < cap
  /\ LET activity == [id |-> kind, type |-> kind] IN
       /\ activityUpdateQueue' = queueActivityUpdate(activityUpdateQueue, activity)
       /\ updateBatchTimeout' = clock + BATCH_DELAY
       /\ window' = Append(window, activity)
  /\ last' = [op |-> "other_frame", kind |-> kind]
  /\ frames' = frames + 1
  /\ UNCHANGED <<authVars, serviceVars, storeVars, isConnected, clock, run,
                 histVars, feedbackVars>>

\* a frame of a kind with a logging listener, or with no listener at all
on_other_frame(kind, cap) ==
  /\ socket = "open"
  /\ frames < cap
  /\ last' = [op |-> "other_frame", kind |-> kind]
  /\ frames' = frames + 1
  /\ UNCHANGED <<authVars, serviceVars, queueVars, storeVars, isConnected,
                 clock, run, histVars, feedbackVars>>

\* history of the upserts of one flush
RECURSIVE histFrom(_, _, _, _, _, _)
histFrom(h, acts, snapshot, queue, i, reset) ==
  IF i > Len(queue) THEN h
  ELSE LET a == queue[i]
           live == findIndex(acts, a.id) > 0
           lost == findIndex(snapshot, a.id) > 0 /\ ~live
           h1 == IF lost THEN h ELSE RecordUpsert(h, a, reset /\ ~live)
       IN histFrom(h1, flushOne(acts, snapshot, a), snapshot, queue, i + 1, reset)

\* the timer callback without updateBatchTimeout = null
timer_firesKeepTimer ==
  /\ updateBatchTimeout # NoTimer
  /\ clock >= updateBatchTimeout
  /\ IF Len(activityUpdateQueue) = 0
     THEN UNCHANGED <<queueVars, storeVars>>
     ELSE /\ activities' = processBatchedUpdates(activities, activityUpdateQueue)
          /\ activityUpdateQueue' = <<>>
          /\ updateBatchTimeout' = updateBatchTimeout
          /\ window' = <<>>
          /\ upserts' = histFrom(upserts, activities, activities,
                                 activityUpdateQueue, 1, TRUE)
          /\ allUpserts' = histFrom(allUpserts, activities, activities,
                                    activityUpdateQueue, 1, FALSE)
          /\ UNCHANGED systemStatus
  /\ last' = [op |-> "flush",
              calls |-> flushCalls(activities, activityUpdateQueue),
              window |-> window]
  /\ UNCHANGED <<authVars, serviceVars, isConnected, clock, frames, run,
                 histVars, feedbackVars>>

\* the setTimeout callback: processBatchedUpdates(), at or after the due time
timer_fires ==
  /\ updateBatchTimeout # NoTimer
  /\ clock >= updateBatchTimeout
  /\ IF Len(activityUpdateQueue) = 0
     THEN UNCHANGED <<queueVars, storeVars>>
     ELSE /\ activities' = processBatchedUpdates(activities, activityUpdateQueue)
          /\ activityUpdateQueue' = <<>>
          /\ updateBatchTimeout' = NoTimer
          /\ window' = <<>>
          /\ upserts' = histFrom(upserts, activities, activities,
                                 activityUpdateQueue, 1, TRUE)
          /\ allUpserts' = histFrom(allUpserts, activities, activities,
                                    activityUpdateQueue, 1, FALSE)
          /\ UNCHANGED systemStatus
  /\ last' = [op |-> "flush",
              calls |-> flushCalls(activities, activityUpdateQueue),
              window |-> window]
  /\ UNCHANGED <<authVars, serviceVars, isConnected, clock, frames, run,
                 histVars, feedbackVars>>

\* time passes: one millisecond, or one batch delay
tick(d) ==
  /\ clock + d <= MaxClock
  /\ d = 1 => (clock % BATCH_DELAY) < MaxMs
  /\ clock' = clock + d
  /\ UNCHANGED <<authVars, serviceVars, queueVars, storeVars, isConnected,
                 frames, run, histVars, last, feedbackVars>>

(***************************************************************************)
(* Direct calls of the store's actions.                                    *)
(***************************************************************************)
store_addActivity(a, cap) ==
  /\ frames < cap
  /\ activities' = addActivity(activities, a)
  /\ upserts' = RecordUpsert(upserts, a, findIndex(activities, a.id) = 0)
  /\ allUpserts' = RecordUpsert(allUpserts, a, FALSE)
  /\ last' = [op |-> "addActivity", activity |-> a]
  /\ frames' = frames + 1
  /\ UNCHANGED <<authVars, serviceVars, queueVars, systemStatus, isConnected,
                 clock, run, histVars, feedbackVars>>

store_removeActivity(id, cap) ==
  /\ frames < cap
  /\ activities' = removeActivity(activities, id)
  /\ last' = [op |-> "removeActivity", id |-> id]
  /\ frames' = frames + 1
  /\ UNCHANGED <<authVars, serviceVars, queueVars, systemStatus, upserts,
                 allUpserts, isConnected, clock, run, histVars, feedbackVars>>

store_clearActivities(cap) ==
  /\ frames < cap
  /\ activities' = clearActivities(activities)
  /\ last' = [op |-> "clearActivities"]
  /\ frames' = frames + 1
  /\ UNCHANGED <<authVars, serviceVars, queueVars, systemStatus, upserts,
                 allUpserts, isConnected, clock, run, histVars, feedbackVars>>

(***************************************************************************)
(* Feedback store.  submittedFeedback is an object keyed by email id; its  *)
(* keys keep the order in which they were first written.                   *)
(***************************************************************************)
EmailIds == {"email1", "email2", "email3"}
Corrections == {<<"HIGH", "action_request">>, <<"LOW", "promotion">>}
NoSubmission == [isNull |-> TRUE]

\* new Date(iso).getTime(): the reading whose ISO string is iso
getTime(iso) == CHOOSE t \in 0..(MaxClock + 1) : toISOString(t) = iso

\* the position of the key in the object, 0 when it is not a key
keyIndex(sf, emailId) ==
  IF \E i \in 1..Len(sf) : sf[i].emailId = emailId
  THEN CHOOSE i \in 1..Len(sf) : sf[i].emailId = emailId
  ELSE 0

\* markFeedbackSubmitted that adds a member on every call
markFeedbackSubmittedAppend(sf, emailId, correctedPriority, correctedIntent, now) ==
  Append(sf, [emailId |-> emailId, submittedAt |-> toISOString(now),
              correctedPriority |-> correctedPriority,
              correctedIntent |-> correctedIntent])

\* { ...state.submittedFeedback, [emailId]: {...} }
markFeedbackSubmitted(sf, emailId, correctedPriority, correctedIntent, now) ==
  LET sub == [emailId |-> emailId, submittedAt |-> toISOString(now),
              correctedPriority |-> correctedPriority,
              correctedIntent |-> correctedIntent]
      i == keyIndex(sf, emailId)
  IN IF i # 0 THEN [sf EXCEPT ![i] = sub] ELSE Append(sf, sub)

isFeedbackSubmitted(sf, emailId) == keyIndex(sf, emailId) # 0

getFeedbackSubmission(sf, emailId) ==
  IF keyIndex(sf, emailId) # 0 THEN sf[keyIndex(sf, emailId)]
  ELSE NoSubmission

clearFeedbackHistory(sf) == <<>>

getFeedbackCount(sf) == Len(sf)

\* the sorted array with x put after every element that does not sort
\* after it: Array.prototype.sort is stable
insertSorted(sorted, x) ==
  LET before == {i \in 1..Len(sorted) :
                   getTime(x.submittedAt) - getTime(sorted[i].submittedAt) <= 0}
      n == Cardinality(before)
  IN SubSeq(sorted, 1, n) \o <<x>> \o SubSeq(sorted, n + 1, Len(sorted))

RECURSIVE sortBySubmittedAtDesc(_, _, _)
sortBySubmittedAtDesc(sorted, arr, i) ==
  IF i > Len(arr) THEN sorted
  ELSE sortBySubmittedAtDesc(insertSorted(sorted, arr[i]), arr, i + 1)

\* Object.values(...).sort((a, b) => b - a on submittedAt).slice(0, limit)
getRecentFeedback(sf, limit) ==
  LET sorted == sortBySubmittedAtDesc(<<>>, sf, 1)
  IN SubSeq(sorted, 1, Min(limit, Len(sorted)))

feedback_markFeedbackSubmitted(emailId, correction) ==
  /\ Len(marks) < MaxMarks
  /\ submittedFeedback' = markFeedbackSubmitted(submittedFeedback, emailId,
                                                correction[1], correction[2],
                                                clock)
  /\ marks' = Append(marks, [emailId |-> emailId,
                             correctedPriority |-> correction[1],
                             correctedIntent |-> correction[2]])
  /\ last' = [op |-> "markFeedbackSubmitted", emailId |-> emailId]
  /\ UNCHANGED <<authVars, serviceVars, queueVars, storeVars, isConnected,
                 clock, frames, run, histVars>>

feedback_clearFeedbackHistory ==
  /\ submittedFeedback' = clearFeedbackHistory(submittedFeedback)
  /\ marks' = <<>>
  /\ last' = [op |-> "clearFeedbackHistory"]
  /\ UNCHANGED <<authVars, serviceVars, queueVars, storeVars, isConnected,
                 clock, frames, run, histVars>>

(***************************************************************************)
(* Specifications.                                                         *)
(***************************************************************************)
\* the connection manager with its callers, and a few frames
Next ==
  \/ \E tok \in Tokens : login(tok)
  \/ \E tok \in Tokens : updateToken(tok)
  \/ logout
  \/ connect
  \/ disconnect
  \/ on_connect
  \/ on_disconnect
  \/ on_connect_error
  \/ \E a \in WireActivities({"A"}) : on_activity_frame("activity_update", a, MaxFrames)
  \/ \E st \in StatusValues : on_system_status_update(st, MaxFrames)
  \/ \E k \in LoggedKinds \cup {"unknown_kind"} : on_other_frame(k, MaxFrames)
  \/ timer_fires
  \/ \E d \in {1, BATCH_DELAY} : tick(d)

Spec == Init /\ [][Next]_vars

\* the connection manager with every caller of its public methods
NextConn ==
  \/ \E tok \in Tokens : login(tok)
  \/ \E tok \in Tokens : updateToken(tok)
  \/ logout
  \/ connect
  \/ disconnect
  \/ on_connect
  \/ on_disconnect
  \/ on_connect_error
  \/ subscribeToActivities
  \/ unsubscribeFromActivities
  \/ \E a \in WireActivities({"A"}) : on_activity_frame("activity_update", a, MaxConnFrames)
  \/ timer_fires
  \/ tick(BATCH_DELAY)

SpecConn == Init /\ [][NextConn]_vars

\* the batching queue and the registry behind one connection
NextPipe ==
  \/ login("tok1")
  \/ connect
  \/ disconnect
  \/ on_connect
  \/ on_disconnect
  \/ \E a \in WireActivities({"A", "B"}) :
        on_activity_frame("activity_update", a, MaxPipeFrames)
  \/ \E d \in StartedPayloads :
        on_activity_frame("email_processing_started", d, MaxPipeFrames)
  \/ timer_fires
  \/ tick(BATCH_DELAY)
  \/ \E a \in WireActivities({"A"}) : store_addActivity(a, MaxPipeFrames)
  \/ store_removeActivity("A", MaxPipeFrames)
  \/ store_clearActivities(MaxPipeFrames)

SpecPipe == Init /\ [][NextPipe]_vars

\* every listener of the normalizer behind one connection
NextNorm ==
  \/ login("tok1")
  \/ connect
  \/ on_connect
  \/ \E k \in NormalizedKinds : \E d \in Payloads(k) :
        on_activity_frame(k, d, MaxNormFrames)
  \/ timer_fires
  \/ tick(BATCH_DELAY)

SpecNorm == Init /\ [][NextNorm]_vars

\* the n-th Activity of a sequence of insertions with distinct ids
NthActivity(n) ==
  [id |-> "n" \o ToString(n), type |-> "autonomous_task",
   status |-> "completed", created_at |-> "T1", updated_at |-> "T1"]

\* distinct-id Activities inserted one after another into the empty registry
NextCap ==
  \/ store_addActivity(NthActivity(frames + 1), MaxInserts)
  \/ \E d \in {1, BATCH_DELAY} : tick(d)

SpecCap == Init /\ [][NextCap]_vars

\* the registry is filled to its capacity by insertions of distinct ids,
\* then frames for its oldest entry and for a new id are flushed into it
NextFull ==
  \/ login("tok1")
  \/ connect
  \/ on_connect
  \/ store_addActivity(NthActivity(frames + 1), MaxActivities)
  \/ /\ Len(activities) = MaxActivities
     /\ \E a \in WireActivities({"n1", "X"}) :
           on_activity_frame("activity_update", a, MaxActivities + MaxFullFrames)
  \/ timer_fires
  \/ tick(BATCH_DELAY)

SpecFull == Init /\ [][NextFull]_vars

\* the feedback store under its callers, with the clock
NextFeedback ==
  \/ \E e \in EmailIds, c \in Corrections : feedback_markFeedbackSubmitted(e, c)
  \/ feedback_clearFeedbackHistory
  \/ tick(BATCH_DELAY)

SpecFeedback == Init /\ [][NextFeedback]_vars

(***************************************************************************)
(* Claims.                                                                 *)
(***************************************************************************)

\* C1: the transport is constructed at most once and listeners are
\* registered at most once; once isInitialized is set, no step constructs
\* a transport or registers listeners again, and the flag stays set.
C1_SingleTransport ==
  [][/\ constructions' <= 1
     /\ listenerRegs' <= 1
     /\ isInitialized => /\ isInitialized'
                         /\ constructions' = constructions
                         /\ listenerRegs' = listenerRegs]_vars

\* a connect() after a transport error and a credential change opened the
\* same transport again without constructing one
C1_Witness ==
  /\ last.op = "connect"
  /\ last.built = 0
  /\ last.opens >= 1
  /\ reconnectAttempts > 0
  /\ socketAuth = "tok2"
  /\ constructions = 1

\* C2: two connect() calls in a row with a credential, starting from a
\* transport that is not connected, make exactly one construction and
\* exactly one open attempt (one call of socket.connect()).
C2_IdempotentConnect ==
  (last.op = "connect" /\ last.n = 2 /\ ~last.wasOpen)
    => (last.opens = 1 /\ constructions = 1)

\* C3: what is in the buffer when disconnect() is called is discarded: after
\* disconnect() (also through logout) the buffer is empty and no timer is
\* pending, every buffered entry was queued after the last disconnect or
\* flush, and a flush applies only entries queued since then.
C3_DisconnectDiscardsBuffer ==
  /\ \A i \in 1..Len(activityUpdateQueue) :
        activityUpdateQueue[i] \in Range(window)
  /\ last.op \in {"disconnect", "logout"}
       => (activityUpdateQueue = <<>> /\ updateBatchTimeout = NoTimer)
  /\ last.op = "flush"
       => \A i \in 1..Len(last.calls) :
             last.calls[i].activity \in Range(last.window)

\* disconnect() was called with two Activities buffered, and the registry
\* is still empty
C3_Witness ==
  /\ last.op = "disconnect"
  /\ Len(last.dropped) = 2
  /\ activities = <<>>
  /\ activityUpdateQueue = <<>>

\* C4: no two entries of the activities list have the same id.
C4_UniqueIds ==
  \A i, j \in 1..Len(activities) :
     i # j => activities[i].id # activities[j].id

\* two entries in the registry, one of them upserted twice
C4_Witness ==
  /\ Len(activities) = 2
  /\ \E i \in 1..2 : Len(upserts[activities[i].id]) >= 2

\* C5: created_at of a registry entry is that of the first upsert of the id
\* since it entered the registry, and updated_at that of the latest.
C5_CreatedAtFixed ==
  \A i \in 1..Len(activities) :
     LET h == upserts[activities[i].id] IN
       /\ Get(activities[i], "created_at") = Get(h[1], "created_at")
       /\ Get(activities[i], "updated_at") = Get(h[Len(h)], "updated_at")

\* the field-wise overlay of a sequence of updates, in arrival order
RECURSIVE OverlayFrom(_, _, _)
OverlayFrom(acc, h, i) ==
  IF i > Len(h) THEN acc
  ELSE OverlayFrom([k \in (DOMAIN acc) \cup (DOMAIN h[i]) |->
                      IF k \in DOMAIN h[i] THEN h[i][k] ELSE acc[k]], h, i + 1)

OverlayAll(h) == OverlayFrom(h[1], h, 2)

MergedKeys ==
  {"id", "type", "stage", "status", "progress", "confidence", "email_id",
   "updated_at"}

\* C6 as stated: an entry of the registry equals, created_at aside, the
\* overlay of all upserts ever made with its id.
C6_OverlayOfAllUpserts ==
  /\ C4_UniqueIds
  /\ \A i \in 1..Len(activities) :
        \A k \in MergedKeys :
           Get(activities[i], k) = Get(OverlayAll(allUpserts[activities[i].id]), k)

\* C6 amended: an entry of the registry is the only one with its id and
\* equals, created_at aside, the overlay in arrival order of the upserts made
\* with its id since the id last entered the registry.
C6_OverlaySinceInsertion ==
  /\ \A i, j \in 1..Len(activities) :
        activities[i].id = activities[j].id => i = j
  /\ \A i \in 1..Len(activities) :
        \A k \in MergedKeys :
           Get(activities[i], k) = Get(OverlayAll(upserts[activities[i].id]), k)

\* an entry upserted twice keeps the progress only its first upsert set and
\* has the status of the second
C6_Witness ==
  \E i \in 1..Len(activities) :
     LET h == upserts[activities[i].id] IN
       /\ Len(h) = 2
       /\ "progress" \in DOMAIN h[1]
       /\ "progress" \notin DOMAIN h[2]
       /\ Get(activities[i], "progress") = "40"
       /\ Get(activities[i], "status") = "completed"

\* C7: the registry holds at most MaxActivities entries, and after n
\* sequential insertions of distinct ids into the empty registry it holds the
\* min(n, MaxActivities) most recently inserted ids, newest first.
C7_CapacityBound ==
  /\ Len(activities) = Min(frames, MaxActivities)
  /\ \A i \in 1..Len(activities) :
        activities[i] = NthActivity(frames + 1 - i)

\* more insertions than the capacity: the oldest entries are gone
C7_Witness ==
  /\ frames = MaxActivities + 3
  /\ Len(activities) = MaxActivities
  /\ activities[MaxActivities].id = "n4"
  /\ activities[1].id = "n53"

\* the ids of a sequence of Activities
IdsOf(seq) == {seq[i].id : i \in 1..Len(seq)}

\* the last Activity of a window with the id
LastOf(w, id) ==
  w[CHOOSE i \in 1..Len(w) :
       /\ w[i].id = id
       /\ \A j \in (i + 1)..Len(w) : w[j].id # id]

\* C8: a flush makes exactly one store call for each id queued in its
\* window, and the call carries the last Activity queued with that id.
C8_BatchCoalescing ==
  last.op = "flush" =>
     /\ \A id \in IdsOf(last.window) :
           Cardinality({i \in 1..Len(last.calls) :
                           last.calls[i].activity.id = id}) = 1
     /\ \A i \in 1..Len(last.calls) :
           last.calls[i].activity = LastOf(last.window, last.calls[i].activity.id)

\* three different events with one id in a window, flushed by one call
C8_Witness ==
  /\ last.op = "flush"
  /\ Len(last.window) = 3
  /\ Cardinality(IdsOf(last.window)) = 1
  /\ last.window[2] # last.window[3]
  /\ Len(last.calls) = 1

\* the ids of a window in first-seen order
RECURSIVE FirstSeenFrom(_, _, _)
FirstSeenFrom(acc, w, i) ==
  IF i > Len(w) THEN acc
  ELSE FirstSeenFrom(IF w[i].id \in Range(acc) THEN acc
                     ELSE Append(acc, w[i].id), w, i + 1)

FirstSeen(w) == FirstSeenFrom(<<>>, w, 1)

C10_OneActivityPerRun ==
  \A f \in Families : Cardinality(run[f]) <= 1

\* C11: delivering a frame a second time, at the same or a later clock
\* reading, creates no additional Activity: the ids in the registry and in
\* the buffer are never more than the distinct frames delivered.
C11_RetransmitAddsNoEntry ==
  Cardinality(IdsOf(activities) \cup IdsOf(activityUpdateQueue))
     <= Cardinality(sent)

\* C12: from the return of disconnect() until the next call of connect()
\* the transport is not open, the connection flag is false and nothing is
\* buffered or scheduled.
C12_AtomicCancellation ==
  cancelled =>
     /\ socket # "open"
     /\ isConnected = FALSE
     /\ activityUpdateQueue = <<>>
     /\ updateBatchTimeout = NoTimer

\* C13: a transport error increments the attempt counter by one; the error
\* that brings it to maxReconnectAttempts runs a full disconnect() in the
\* same step: flag false, counter zero, buffer empty, no timer.
C13_ErrorCounting ==
  [][(socket = "opening" /\ socket' = "closed"
        /\ last'.op = "on_connect_error") =>
       IF reconnectAttempts + 1 >= maxReconnectAttempts
       THEN /\ reconnectAttempts' = 0
            /\ isConnected' = FALSE
            /\ activityUpdateQueue' = <<>>
            /\ updateBatchTimeout' = NoTimer
       ELSE /\ reconnectAttempts' = reconnectAttempts + 1
            /\ isConnected' = FALSE]_vars

\* the fifth failure in a row gave up and left the counter at zero
C13_Witness ==
  /\ last.op = "on_connect_error"
  /\ last.gaveUp
  /\ reconnectAttempts = 0
  /\ isConnected = FALSE
  /\ activityUpdateQueue = <<>>

\* C14: the 'connect' callback leaves the counter at zero and the flag true
\* and emits subscribe_activities exactly once; a subscribe or unsubscribe
\* call emits only on an open transport.
C14_SubscribeOnOpen ==
  /\ last.op = "on_connect" =>
        /\ reconnectAttempts = 0
        /\ isConnected = TRUE
        /\ socket = "open"
        /\ last.emitted = <<"subscribe_activities">>
  /\ last.op \in {"subscribeToActivities", "unsubscribeFromActivities"} =>
        (last.emitted # <<>> => socket = "open")

\* an open that followed a failed attempt
C14_Witness ==
  /\ last.op = "on_connect"
  /\ last.failed
  /\ last.emitted = <<"subscribe_activities">>
  /\ reconnectAttempts = 0
  /\ isConnected = TRUE

\* C15: an open attempt carries the credential the auth store holds when
\* connect() is called, never the one of construction or of an earlier call.
C15_FreshCredential ==
  (last.op = "connect" /\ socket = "opening") => socketAuth = token

\* an attempt made after the credential changed: the socket carried another
\* credential before this call
C15_Witness ==
  /\ last.op = "connect"
  /\ socket = "opening"
  /\ last.prevAuth \notin {"", token}
  /\ socketAuth = token

\* C16: connect() without a credential constructs nothing, opens nothing
\* and leaves the flag, the counter, the buffer and the registry as they were.
C16_ConnectWithoutCredential ==
  [][last'.op = "connect_no_token" =>
       UNCHANGED <<isInitialized, socket, socketAuth, constructions,
                   listenerRegs, reconnectAttempts, activityUpdateQueue,
                   updateBatchTimeout, activities, systemStatus,
                   isConnected>>]_vars

\* connect() was called without a credential before any transport existed
C16_Witness ==
  /\ last.op = "connect_no_token"
  /\ token = NoToken
  /\ isInitialized = FALSE
  /\ socket = "null"
  /\ constructions = 0

\* C17: disconnect() on a transport that is not open performs no transport
\* operation and leaves the flag false; a second disconnect() in a row
\* changes nothing.
C17_DisconnectWhenDisconnected ==
  [][(last'.op = "disconnect" /\ socket # "open") =>
       /\ socket' = socket
       /\ isConnected' = FALSE
       /\ last.op = "disconnect" =>
             UNCHANGED <<authVars, serviceVars, queueVars, storeVars,
                         isConnected>>]_vars

\* disconnect() was called on a constructed transport that was not open
C17_Witness ==
  /\ last.op = "disconnect"
  /\ last.closed = FALSE
  /\ socket = "closed"
  /\ isConnected = FALSE

\* C18: a frame of a kind that has no listener changes neither the buffer,
\* nor the timer, nor the Activities, nor the SystemStatus, nor the flag.
C18_UnknownKindIgnored ==
  [][(last'.op = "other_frame" /\ last'.kind = "unknown_kind") =>
       UNCHANGED <<activityUpdateQueue, updateBatchTimeout, activities,
                   systemStatus, isConnected>>]_vars

\* a frame of an unknown kind arrived while a batch was pending
C18_Witness ==
  /\ last.op = "other_frame"
  /\ last.kind = "unknown_kind"
  /\ activityUpdateQueue # <<>>
  /\ updateBatchTimeout # NoTimer

\* C19: a frame of an email-scoped kind without email_id is dropped by the
\* normalizer: no Activity lacking its email_id is ever in the buffer or in
\* the registry.
C19_MissingEmailIdDropped ==
  \A a \in Range(activityUpdateQueue) \cup Range(activities) :
     "email_id" \in DOMAIN a => a.email_id # Undef

\* two statuses with the same members, whatever the order of the keys
StructEq(a, b) ==
  /\ a.isNull = b.isNull
  /\ {<<a.keys[i], a.vals[i]>> : i \in 1..Len(a.keys)}
       = {<<b.keys[i], b.vals[i]>> : i \in 1..Len(b.keys)}

\* C20: a status frame whose value is structurally identical to the current
\* SystemStatus leaves the store's status object as it is, a differing value
\* replaces it wholesale, and neither changes the Activities.
C20_NoOpSuppression ==
  [][last'.op = "status_frame" =>
       /\ activities' = activities
       /\ IF StructEq(systemStatus, last'.status)
          THEN systemStatus' = systemStatus
          ELSE systemStatus' = last'.status]_vars

\* C21: the flush of a buffered Activity is due a fixed delay after the
\* Activity entered the buffer: while records wait in the buffer, the due
\* time of their flush is never moved later by a further frame.
C21_BoundedFlushDelay ==
  [][(activityUpdateQueue # <<>> /\ activityUpdateQueue' # <<>>
        /\ updateBatchTimeout # NoTimer) =>
       updateBatchTimeout' <= updateBatchTimeout]_vars

\* C22: a flush of a window of at most 50 distinct ids loses no record:
\* right after it every buffered id is in the registry with the field values
\* buffered for it, whatever the registry held before, a full one included.
C22_FlushLosesNothing ==
  (last.op = "flush" /\ Cardinality(IdsOf(last.window)) <= MaxActivities) =>
     \A id \in IdsOf(last.window) :
        \E j \in 1..Len(activities) :
           /\ activities[j].id = id
           /\ \A k \in DOMAIN LastOf(last.window, id) :
                 Get(activities[j], k) = LastOf(last.window, id)[k]

\* the ids marked since the last clear
MarkedIds == {marks[i].emailId : i \in 1..Len(marks)}

\* the position in marks of the latest mark of an id
LatestMark(e) ==
  CHOOSE i \in 1..Len(marks) :
     /\ marks[i].emailId = e
     /\ \A j \in (i + 1)..Len(marks) : marks[j].emailId # e

RECURSIVE RecentIdsFrom(_, _)
RecentIdsFrom(acc, i) ==
  IF i = 0 THEN acc
  ELSE RecentIdsFrom(IF marks[i].emailId \in Range(acc) THEN acc
                     ELSE Append(acc, marks[i].emailId), i - 1)

RecentIds == RecentIdsFrom(<<>>, Len(marks))

\* C24: getRecentFeedback(limit) returns min(limit, count) submissions, the
\* most recently marked first, also for marks made at one clock reading.
C24_RecentFirst ==
  \A limit \in 0..(MaxMarks + 1) :
     LET recent == getRecentFeedback(submittedFeedback, limit) IN
       /\ Len(recent) = Min(limit, getFeedbackCount(submittedFeedback))
       /\ [i \in 1..Len(recent) |-> recent[i].emailId]
            = SubSeq(RecentIds, 1, Len(recent))

\* C25: disconnect(), called in any state, leaves the flag false, the
\* counter at 0, no timer pending and the buffer empty, closes a connected
\* transport, and changes neither the activities nor the system status.
C25_DisconnectPostcondition ==
  [][last'.op \in {"disconnect", "logout"} =>
       /\ isConnected' = FALSE
       /\ reconnectAttempts' = 0
       /\ updateBatchTimeout' = NoTimer
       /\ activityUpdateQueue' = <<>>
       /\ socket = "open" => socket' = "closed"
       /\ UNCHANGED <<activities, systemStatus>>]_vars

\* disconnect() closed a connected transport whose registry held a flushed
\* Activity
C25_Witness ==
  /\ last.op = "disconnect"
  /\ last.closed
  /\ socket = "closed"
  /\ activities # <<>>
  /\ isConnected = FALSE
  /\ reconnectAttempts = 0

\* the result keeps every entry of acts but the i-th where it was
SamePlaces(acts, res, i) ==
  /\ Len(res) = Len(acts)
  /\ \A j \in 1..Len(acts) :
        /\ res[j].id = acts[j].id
        /\ j # i => res[j] = acts[j]

\* C26: an upsert of an id of the registry keeps the entry at its position
\* and all other entries as they are; an upsert of a new id puts it at the
\* head, moves the others down by one in their order and drops only from the
\* tail beyond 50; removeActivity of an absent id leaves the list unchanged.
C26_UpsertPositions ==
  /\ \A i \in 1..Len(activities) :
        \A a \in WireActivities({activities[i].id}) :
           /\ SamePlaces(activities, addActivity(activities, a), i)
           /\ SamePlaces(activities, updateActivity(activities, a.id, a), i)
  /\ \A a \in WireActivities({"X"}) :
        LET res == addActivity(activities, a) IN
          /\ Len(res) = Min(Len(activities) + 1, MaxActivities)
          /\ res[1] = a
          /\ \A j \in 2..Len(res) : res[j] = activities[j - 1]
  /\ removeActivity(activities, "X") = activities

\* a full registry right after the insertion that dropped its first entry
C26_Witness ==
  /\ last.op = "addActivity"
  /\ frames = MaxActivities + 1
  /\ Len(activities) = MaxActivities
  /\ activities[1].id = "n51"
  /\ activities[2].id = "n50"
  /\ activities[MaxActivities].id = "n2"

\* C27: after every call and callback the connection flag is true only if
\* the transport is connected, so every close leaves the flag false.
C27_FlagImpliesConnected ==
  isConnected = TRUE => socket = "open"

\* the transport of a connected manager closed under it
C27_Witness ==
  /\ last.op = "on_disconnect"
  /\ socket = "closed"
  /\ isConnected = FALSE

\* C28: after every call and callback the attempt counter is between 0 and
\* maxReconnectAttempts - 1; it changes only by +1 in a transport error and
\* by a reset to 0 in a successful open, a disconnect() or the error that
\* gives up.
C28_CounterBounded ==
  [][/\ reconnectAttempts \in 0..(maxReconnectAttempts - 1)
     /\ reconnectAttempts' \in 0..(maxReconnectAttempts - 1)
     /\ reconnectAttempts' # reconnectAttempts =>
           \/ /\ reconnectAttempts' = reconnectAttempts + 1
              /\ last'.op = "on_connect_error"
           \/ /\ reconnectAttempts' = 0
              /\ last'.op \in {"on_connect", "disconnect", "logout",
                               "on_connect_error"}]_vars

\* four failures in a row: the counter at its largest value
C28_Witness ==
  /\ last.op = "on_connect_error"
  /\ last.gaveUp = FALSE
  /\ reconnectAttempts = maxReconnectAttempts - 1

\* C29: after every call and callback a flush timer is pending exactly when
\* the buffer is not empty, and the buffer holds at most one entry per id.
C29_TimerIffBuffer ==
  /\ (updateBatchTimeout # NoTimer) <=> (activityUpdateQueue # <<>>)
  /\ \A i, j \in 1..Len(activityUpdateQueue) :
        i # j => activityUpdateQueue[i].id # activityUpdateQueue[j].id

\* a second frame for a buffered id: one entry, one timer
C29_Witness ==
  /\ last.op = "frame"
  /\ last.firstOfWindow = FALSE
  /\ Len(window) = 2
  /\ Len(activityUpdateQueue) = 1
  /\ updateBatchTimeout # NoTimer

\* the registry after each frame of a window was flushed in a window of its
\* own
RECURSIVE SeparateWindows(_, _, _)
SeparateWindows(acts, w, i) ==
  IF i > Len(w) THEN acts
  ELSE SeparateWindows(processBatchedUpdates(acts, <<w[i]>>), w, i + 1)

\* C30: the registry reached by flushing frames does not depend on where
\* the window boundaries fall: a flush of a window leaves the activities,
\* fields and order that flushing each of its frames on its own leaves.
C30_WindowIndependence ==
  [][(updateBatchTimeout # NoTimer /\ updateBatchTimeout' = NoTimer
        /\ last'.op = "flush") =>
       activities' = SeparateWindows(activities, window, 1)]_vars

====
